---- MODULE Spec2Model ----
(***************************************************************************)
(* Model of agatticelli/intent-go: the NormalizedCommand record, the       *)
(* rule-based validator (validators/command.go) and the Wit.ai processor   *)
(* pipeline ParseCommand = callWitAI ; transformWitResponse ;              *)
(* ValidateCommand.                                                        *)
(*                                                                         *)
(* Representation.                                                         *)
(*   - A Go string that the code inspects character by character (entity   *)
(*     values, Symbol) is a sequence of one-character strings.  A Go       *)
(*     string that is only compared or formatted with %s (Intent, the      *)
(*     entries of Missing and Errors) is a TLA+ string.                    *)
(*   - A float64 is a record [nan, v]: a finite whole number v, or NaN.    *)
(*     Sums of whole numbers are exact in float64, so the arithmetic of    *)
(*     the model is the arithmetic of the code on this domain.  The        *)
(*     comparisons follow IEEE 754: every comparison with NaN is false.    *)
(*   - A nilable pointer (to a Side or a float64) is a sequence of length  *)
(*     0 (nil) or 1 (the pointee).                                         *)
(***************************************************************************)
EXTENDS Integers, Sequences, FiniteSets, TLC

VARIABLES
    pc,       \* position of the caller: which step of the call has been taken
    cmd,      \* the NormalizedCommand the call works on
    input,    \* ParseCommand: the text handed to the call
    witResp,  \* ParseCommand: what callWitAI returned, [resp, err]
    ret,      \* ParseCommand: what the call returned, [cmd, err]
    log,      \* ParseCommand: the steps taken so far, in order
    before,   \* ValidateCommand: the command as the caller handed it over
    arg,      \* a normalizer or parser called alone: its argument
    out,      \* a normalizer or parser called alone: its results so far
    calls,    \* concurrent ParseCommand calls: the locals of each, [pc, input, witResp, cmd, ret]
    heap      \* concurrent ParseCommand calls: the commands allocated so far, by address

vars == <<pc, cmd, input, witResp, ret, log, before, arg, out, calls, heap>>

(***************************************************************************)
(* Bounds of the model.                                                    *)
(***************************************************************************)
MaxTPLevels == 2    \* longest TPLevels list of an enumerated command
MaxCalls == 2       \* number of ParseCommand calls running at the same time

(***************************************************************************)
(* float64                                                                 *)
(***************************************************************************)
F(n) == [nan |-> FALSE, v |-> n]
NaN == [nan |-> TRUE, v |-> 0]

FLe(a, b) == ~a.nan /\ ~b.nan /\ a.v <= b.v
FGe(a, b) == ~a.nan /\ ~b.nan /\ a.v >= b.v
FGt(a, b) == ~a.nan /\ ~b.nan /\ a.v > b.v
FAdd(a, b) == IF a.nan \/ b.nan THEN NaN ELSE F(a.v + b.v)

(***************************************************************************)
(* Nilable pointers                                                        *)
(***************************************************************************)
Nil == <<>>
Ptr(x) == <<x>>
Deref(p) == p[1]

(***************************************************************************)
(* intent.Intent, intent.Side                                              *)
(***************************************************************************)
IntentOpenPosition == "open_position"
IntentClosePosition == "close_position"
IntentViewPositions == "view_positions"
IntentViewOrders == "view_orders"
IntentCancelOrders == "cancel_orders"
IntentCheckBalance == "check_balance"
IntentBreakEven == "break_even"
IntentTrailingStop == "trailing_stop"
IntentUnknown == "unknown"

SideLong == "LONG"
SideShort == "SHORT"

(***************************************************************************)
(* intent.NormalizedCommand: the zero value of the struct.  A slice is its *)
(* elements and whether it is the nil slice: Missing with MissingNil,      *)
(* Errors with ErrorsNil.                                                  *)
(***************************************************************************)
ZeroCommand ==
    [Intent |-> "", Confidence |-> F(0), Symbol |-> <<>>, Side |-> Nil,
     EntryPrice |-> Nil, StopLoss |-> Nil, TakeProfit |-> Nil, TriggerPrice |-> Nil,
     TPLevels |-> <<>>, RiskPercent |-> Nil, RRRatio |-> Nil,
     CallbackRate |-> Nil, Distance |-> Nil,
     Valid |-> FALSE, Missing |-> <<>>, Errors |-> <<>>,
     MissingNil |-> TRUE, ErrorsNil |-> TRUE,
     RawInput |-> "", Language |-> "", Timestamp |-> 0]

(***************************************************************************)
(* fmt.Sprintf("%.1f", x) for a finite whole x >= 0, and for NaN.          *)
(***************************************************************************)
Digit(d) == CASE d = 0 -> "0" [] d = 1 -> "1" [] d = 2 -> "2" [] d = 3 -> "3"
              [] d = 4 -> "4" [] d = 5 -> "5" [] d = 6 -> "6" [] d = 7 -> "7"
              [] d = 8 -> "8" [] d = 9 -> "9"

RECURSIVE Itoa(_)
Itoa(n) == IF n < 10 THEN Digit(n) ELSE Itoa(n \div 10) \o Digit(n % 10)

FormatF1(x) ==
    IF x.nan THEN "NaN"
    ELSE IF x.v < 0 THEN "-" \o Itoa(0 - x.v) \o ".0"
    ELSE Itoa(x.v) \o ".0"

(***************************************************************************)
(* validators/command.go                                                   *)
(***************************************************************************)
Append2(c, field, entry) ==
    [c EXCEPT ![field] = Append(@, entry), ![field \o "Nil"] = FALSE, !.Valid = FALSE]

RECURSIVE SumPct(_)
SumPct(levels) ==
    IF levels = <<>> THEN F(0)
    ELSE FAdd(SumPct(SubSeq(levels, 1, Len(levels) - 1)), levels[Len(levels)].Percentage)

CheckSymbol(c) ==
    IF c.Symbol = <<>> THEN Append2(c, "Missing", "symbol") ELSE c

CheckSide(c) ==
    IF c.Side = Nil THEN Append2(c, "Missing", "side") ELSE c

CheckEntryPrice(c) ==
    IF c.EntryPrice = Nil THEN Append2(c, "Missing", "entry_price") ELSE c

\* A faulty CheckStopLoss: the check is skipped once something is missing.
CheckStopLossShortCircuit(c) ==
    IF c.StopLoss = Nil /\ c.Missing = <<>> THEN Append2(c, "Missing", "stop_loss") ELSE c

CheckStopLoss(c) ==
    IF c.StopLoss = Nil THEN Append2(c, "Missing", "stop_loss") ELSE c

\* A faulty CheckRiskPresent: the risk percent is treated as optional.
CheckRiskPresentOptional(c) == c

CheckRiskPresent(c) ==
    IF c.RiskPercent = Nil THEN Append2(c, "Missing", "risk_percent") ELSE c

\* A faulty CheckRiskRange: the error is appended and Valid is left alone.
CheckRiskRangeKeepsValid(c) ==
    IF c.RiskPercent # Nil
       /\ (FLe(Deref(c.RiskPercent), F(0)) \/ FGt(Deref(c.RiskPercent), F(100)))
    THEN [c EXCEPT !.Errors = Append(@, "risk_percent must be between 0 and 100"),
                   !.ErrorsNil = FALSE]
    ELSE c

CheckRiskRange(c) ==
    IF c.RiskPercent # Nil
       /\ (FLe(Deref(c.RiskPercent), F(0)) \/ FGt(Deref(c.RiskPercent), F(100)))
    THEN Append2(c, "Errors", "risk_percent must be between 0 and 100")
    ELSE c

\* A faulty CheckLong: a stop loss equal to the entry price is let through.
CheckLongStrict(c) ==
    IF Deref(c.Side) = SideLong /\ FGt(Deref(c.StopLoss), Deref(c.EntryPrice))
    THEN Append2(c, "Errors", "stop_loss must be below entry_price for LONG")
    ELSE c

CheckLong(c) ==
    IF Deref(c.Side) = SideLong /\ FGe(Deref(c.StopLoss), Deref(c.EntryPrice))
    THEN Append2(c, "Errors", "stop_loss must be below entry_price for LONG")
    ELSE c

CheckShort(c) ==
    IF Deref(c.Side) = SideShort /\ FLe(Deref(c.StopLoss), Deref(c.EntryPrice))
    THEN Append2(c, "Errors", "stop_loss must be above entry_price for SHORT")
    ELSE c

CheckPriceLogic(c) ==
    IF c.Side # Nil /\ c.EntryPrice # Nil /\ c.StopLoss # Nil
    THEN CheckShort(CheckLong(c))
    ELSE c

\* A faulty CheckTPLevels: a sum of exactly 100 is rejected too.
CheckTPLevelsInclusive(c) ==
    IF Len(c.TPLevels) > 0 /\ FGe(SumPct(c.TPLevels), F(100))
    THEN Append2(c, "Errors",
                 "TP percentages sum to " \o FormatF1(SumPct(c.TPLevels))
                    \o "%, cannot exceed 100%")
    ELSE c

CheckTPLevels(c) ==
    IF Len(c.TPLevels) > 0 /\ FGt(SumPct(c.TPLevels), F(100))
    THEN Append2(c, "Errors",
                 "TP percentages sum to " \o FormatF1(SumPct(c.TPLevels))
                    \o "%, cannot exceed 100%")
    ELSE c

\* A faulty validateOpenPosition: the price logic is checked before the range.
validateOpenPositionPriceFirst(c) ==
    CheckTPLevels(CheckRiskRange(CheckPriceLogic(
        CheckRiskPresent(CheckStopLoss(CheckEntryPrice(CheckSide(CheckSymbol(c))))))))

validateOpenPosition(c) ==
    CheckTPLevels(CheckPriceLogic(CheckRiskRange(
        CheckRiskPresent(CheckStopLoss(CheckEntryPrice(CheckSide(CheckSymbol(c))))))))

validateClosePosition(c) == CheckSymbol(c)

CheckTriggerPrice(c) ==
    IF c.TriggerPrice = Nil THEN Append2(c, "Missing", "trigger_price") ELSE c

\* A faulty CheckCallbackOrDistance: both fields are required.
CheckCallbackAndDistance(c) ==
    IF c.CallbackRate = Nil \/ c.Distance = Nil
    THEN Append2(c, "Missing", "callback_rate or distance")
    ELSE c

CheckCallbackOrDistance(c) ==
    IF c.CallbackRate = Nil /\ c.Distance = Nil
    THEN Append2(c, "Missing", "callback_rate or distance")
    ELSE c

validateTrailingStop(c) == CheckCallbackOrDistance(CheckTriggerPrice(CheckSymbol(c)))

\* A faulty validateBreakEven: the trigger price is required as well.
validateBreakEvenNeedsTrigger(c) == CheckTriggerPrice(CheckSymbol(c))

validateBreakEven(c) == CheckSymbol(c)

\* A faulty case list: cancel_orders is left to the default branch.
NoValidationIntentsWithoutCancel ==
    {IntentViewPositions, IntentViewOrders, IntentCheckBalance}

NoValidationIntents ==
    {IntentCancelOrders, IntentViewPositions, IntentViewOrders, IntentCheckBalance}

\* A faulty default branch: the message names "unknown", not the value.
UnknownIntentBranchFixedText(c) ==
    Append2(c, "Errors", "unknown intent: " \o IntentUnknown)

\* A faulty default branch: the intent is rewritten to "unknown" as well.
UnknownIntentBranchRewrites(c) ==
    [Append2(c, "Errors", "unknown intent: " \o c.Intent) EXCEPT !.Intent = IntentUnknown]

UnknownIntentBranch(c) == Append2(c, "Errors", "unknown intent: " \o c.Intent)

\* A faulty reset: Valid is set and the two lists are left as they were.
ResetKeepsLists(c) == [c EXCEPT !.Valid = TRUE]

Reset(c) ==
    [c EXCEPT !.Valid = TRUE, !.Missing = <<>>, !.MissingNil = FALSE,
              !.Errors = <<>>, !.ErrorsNil = FALSE]

ValidateCommandFn(c) ==
    LET r == Reset(c) IN
    CASE r.Intent = IntentOpenPosition -> validateOpenPosition(r)
      [] r.Intent = IntentClosePosition -> validateClosePosition(r)
      [] r.Intent = IntentTrailingStop -> validateTrailingStop(r)
      [] r.Intent = IntentBreakEven -> validateBreakEven(r)
      [] r.Intent \in NoValidationIntents -> r
      [] OTHER -> UnknownIntentBranch(r)

(***************************************************************************)
(* Strings as sequences of characters: the package strings and             *)
(* strconv.ParseFloat.                                                     *)
(***************************************************************************)
LowerLetters == <<"a", "b", "c", "d", "e", "f", "g", "h", "i", "j", "k", "l", "m">>
                \o <<"n", "o", "p", "q", "r", "s", "t", "u", "v", "w", "x", "y", "z">>
UpperLetters == <<"A", "B", "C", "D", "E", "F", "G", "H", "I", "J", "K", "L", "M">>
                \o <<"N", "O", "P", "Q", "R", "S", "T", "U", "V", "W", "X", "Y", "Z">>
Digits == <<"0", "1", "2", "3", "4", "5", "6", "7", "8", "9">>
WhiteSpace == {" ", "\t"}

IndexIn(alphabet, ch) == CHOOSE i \in 1..Len(alphabet) : alphabet[i] = ch
IsIn(alphabet, ch) == \E i \in 1..Len(alphabet) : alphabet[i] = ch

ToLowerChar(ch) == IF IsIn(UpperLetters, ch) THEN LowerLetters[IndexIn(UpperLetters, ch)] ELSE ch
ToUpperChar(ch) == IF IsIn(LowerLetters, ch) THEN UpperLetters[IndexIn(LowerLetters, ch)] ELSE ch

ToLower(s) == [i \in 1..Len(s) |-> ToLowerChar(s[i])]
ToUpper(s) == [i \in 1..Len(s) |-> ToUpperChar(s[i])]

TrimSpace(s) ==
    LET keep == {i \in 1..Len(s) : s[i] \notin WhiteSpace} IN
    IF keep = {} THEN <<>>
    ELSE SubSeq(s, CHOOSE i \in keep : \A j \in keep : i <= j,
                   CHOOSE i \in keep : \A j \in keep : i >= j)

HasSuffix(s, suffix) ==
    /\ Len(s) >= Len(suffix)
    /\ SubSeq(s, Len(s) - Len(suffix) + 1, Len(s)) = suffix

\* strings.Split(s, sep) for a one-character separator: the pieces between
\* the separators, in order; a string without separator gives one piece.
RECURSIVE Split(_, _)
Split(s, sep) ==
    IF \A i \in 1..Len(s) : s[i] # sep THEN <<s>>
    ELSE LET k == CHOOSE i \in 1..Len(s) : s[i] = sep /\ \A j \in 1..(i - 1) : s[j] # sep
         IN <<SubSeq(s, 1, k - 1)>> \o Split(SubSeq(s, k + 1, Len(s)), sep)

RECURSIVE DigitsValue(_)
DigitsValue(s) ==
    IF s = <<>> THEN 0
    ELSE 10 * DigitsValue(SubSeq(s, 1, Len(s) - 1)) + (IndexIn(Digits, s[Len(s)]) - 1)

AllDigits(s) == s # <<>> /\ \A i \in 1..Len(s) : IsIn(Digits, s[i])

\* strconv.ParseFloat(s, 64) on the strings of the model: an optionally
\* signed run of decimal digits is that whole number, "nan" in any letter
\* case is NaN, and every other string is a syntax error.  (Go also reads
\* fractions, exponents, hexadecimal floats and infinities; the strings of
\* the model contain none of them.)
ParseFloat(s) ==
    LET body == IF s # <<>> /\ s[1] \in {"+", "-"} THEN Tail(s) ELSE s IN
    IF AllDigits(body)
    THEN [ok |-> TRUE,
          val |-> F(IF s[1] = "-" THEN 0 - DigitsValue(body) ELSE DigitsValue(body))]
    ELSE IF ToLower(s) = <<"n", "a", "n">>
    THEN [ok |-> TRUE, val |-> NaN]
    ELSE [ok |-> FALSE, val |-> F(0)]

(***************************************************************************)
(* witai: normalizeSymbol, normalizeSide, mapWitIntent, parseTPLevels      *)
(***************************************************************************)
USDT == <<"-", "U", "S", "D", "T">>

symbolMap ==
       <<"b", "i", "t", "c", "o", "i", "n">> :> <<"B", "T", "C", "-", "U", "S", "D", "T">>
    @@ <<"b", "t", "c">> :> <<"B", "T", "C", "-", "U", "S", "D", "T">>
    @@ <<"e", "t", "h", "e", "r", "e", "u", "m">> :> <<"E", "T", "H", "-", "U", "S", "D", "T">>
    @@ <<"e", "t", "h">> :> <<"E", "T", "H", "-", "U", "S", "D", "T">>
    @@ <<"s", "o", "l", "a", "n", "a">> :> <<"S", "O", "L", "-", "U", "S", "D", "T">>
    @@ <<"s", "o", "l">> :> <<"S", "O", "L", "-", "U", "S", "D", "T">>
    @@ <<"b", "n", "b">> :> <<"B", "N", "B", "-", "U", "S", "D", "T">>
    @@ <<"x", "r", "p">> :> <<"X", "R", "P", "-", "U", "S", "D", "T">>
    @@ <<"a", "d", "a">> :> <<"A", "D", "A", "-", "U", "S", "D", "T">>
    @@ <<"c", "a", "r", "d", "a", "n", "o">> :> <<"A", "D", "A", "-", "U", "S", "D", "T">>
    @@ <<"d", "o", "g", "e">> :> <<"D", "O", "G", "E", "-", "U", "S", "D", "T">>
    @@ <<"d", "o", "g", "e", "c", "o", "i", "n">> :> <<"D", "O", "G", "E", "-", "U", "S", "D", "T">>

\* A faulty normalizeSymbol: a blank input is returned as the empty string.
normalizeSymbolKeepsBlank(symbol) ==
    LET normalized == ToLower(TrimSpace(symbol)) IN
    IF normalized = <<>> THEN <<>>
    ELSE IF normalized \in DOMAIN symbolMap THEN symbolMap[normalized]
    ELSE IF ~HasSuffix(ToUpper(symbol), USDT) THEN ToUpper(symbol) \o USDT
    ELSE ToUpper(symbol)

\* A faulty normalizeSymbol: the table is looked up without trimming.
normalizeSymbolNoTrim(symbol) ==
    LET normalized == ToLower(symbol) IN
    IF normalized \in DOMAIN symbolMap THEN symbolMap[normalized]
    ELSE IF ~HasSuffix(ToUpper(symbol), USDT) THEN ToUpper(symbol) \o USDT
    ELSE ToUpper(symbol)

\* A faulty normalizeSymbol: the suffix is appended without looking.
normalizeSymbolAlwaysAppends(symbol) ==
    LET normalized == ToLower(TrimSpace(symbol)) IN
    IF normalized \in DOMAIN symbolMap THEN symbolMap[normalized]
    ELSE ToUpper(symbol) \o USDT

normalizeSymbol(symbol) ==
    LET normalized == ToLower(TrimSpace(symbol)) IN
    IF normalized \in DOMAIN symbolMap THEN symbolMap[normalized]
    ELSE IF ~HasSuffix(ToUpper(symbol), USDT) THEN ToUpper(symbol) \o USDT
    ELSE ToUpper(symbol)

longSynonyms ==
    {<<"b", "u", "y">>,
     <<"l", "o", "n", "g">>,
     <<"b", "u", "l", "l", "i", "s", "h">>,
     <<"c", "o", "m", "p", "r", "a", "r">>,
     <<"l", "a", "r", "g", "o">>,
     <<"a", "l", "c", "i", "s", "t", "a">>}

shortSynonyms ==
    {<<"s", "e", "l", "l">>,
     <<"s", "h", "o", "r", "t">>,
     <<"b", "e", "a", "r", "i", "s", "h">>,
     <<"v", "e", "n", "d", "e", "r">>,
     <<"c", "o", "r", "t", "o">>,
     <<"b", "a", "j", "i", "s", "t", "a">>}

\* A faulty normalizeSide: a text that is no synonym is taken for SHORT.
normalizeSideDefaultsShort(side) ==
    IF ToLower(TrimSpace(side)) \in longSynonyms THEN SideLong ELSE SideShort

\* A faulty normalizeSide: the text is compared without lower-casing.
normalizeSideCaseSensitive(side) ==
    LET s == TrimSpace(side) IN
    IF s \in longSynonyms THEN SideLong
    ELSE IF s \in shortSynonyms THEN SideShort
    ELSE SideLong

normalizeSide(side) ==
    LET s == ToLower(TrimSpace(side)) IN
    IF s \in longSynonyms THEN SideLong
    ELSE IF s \in shortSynonyms THEN SideShort
    ELSE SideLong

intentMap ==
    {IntentOpenPosition, IntentClosePosition, IntentViewPositions, IntentViewOrders,
     IntentCancelOrders, IntentCheckBalance, IntentBreakEven, IntentTrailingStop}

mapWitIntent(witIntent) ==
    IF witIntent \in intentMap THEN witIntent ELSE IntentUnknown

\* One comma-separated part of the levels text: the level it holds, if any.
ParseTPPart(part) ==
    LET pricePct == Split(TrimSpace(part), ":") IN
    IF Len(pricePct) # 2 THEN <<>>
    ELSE LET price == ParseFloat(pricePct[1])
             pct == ParseFloat(pricePct[2])
         IN IF price.ok /\ pct.ok
            THEN <<[Price |-> price.val, Percentage |-> pct.val]>>
            ELSE <<>>

\* A faulty loop: the first part that holds no level ends the parse.
RECURSIVE ParseTPPartsStopAtBad(_)
ParseTPPartsStopAtBad(parts) ==
    IF parts = <<>> \/ ParseTPPart(Head(parts)) = <<>> THEN <<>>
    ELSE ParseTPPart(Head(parts)) \o ParseTPPartsStopAtBad(Tail(parts))

RECURSIVE ParseTPParts(_)
ParseTPParts(parts) ==
    IF parts = <<>> THEN <<>>
    ELSE ParseTPPart(Head(parts)) \o ParseTPParts(Tail(parts))

parseTPLevels(text) == ParseTPParts(Split(text, ","))

(***************************************************************************)
(* witai: transformWitResponse.  A WitAIResponse is [Intents, Entities]:   *)
(* Intents a sequence of [Name, Confidence], Entities a function from the  *)
(* entity names present to sequences of [Value].  The range loop visits    *)
(* the keys of the map in an order the runtime chooses: order is that      *)
(* order, a sequence holding each key once.                                *)
(***************************************************************************)
SetFloat(c, field, text) ==
    LET parsed == ParseFloat(text) IN
    IF parsed.ok THEN [c EXCEPT ![field] = Ptr(parsed.val)] ELSE c

\* A faulty switch: a "distance" entity is read into Distance.
ApplyEntityReadsDistance(c, entityName, entityValues) ==
    IF Len(entityValues) = 0 THEN c
    ELSE LET entity == entityValues[1] IN
         CASE entityName = "symbol" -> [c EXCEPT !.Symbol = normalizeSymbol(entity.Value)]
           [] entityName = "side" -> [c EXCEPT !.Side = Ptr(normalizeSide(entity.Value))]
           [] entityName \in {"entry_price", "price:entry"} ->
                SetFloat(c, "EntryPrice", entity.Value)
           [] entityName \in {"stop_loss", "price:stop_loss"} ->
                SetFloat(c, "StopLoss", entity.Value)
           [] entityName \in {"take_profit", "price:take_profit"} ->
                SetFloat(c, "TakeProfit", entity.Value)
           [] entityName = "risk" -> SetFloat(c, "RiskPercent", entity.Value)
           [] entityName = "trigger_price" -> SetFloat(c, "TriggerPrice", entity.Value)
           [] entityName = "callback_rate" -> SetFloat(c, "CallbackRate", entity.Value)
           [] entityName = "distance" -> SetFloat(c, "Distance", entity.Value)
           [] entityName = "levels" -> [c EXCEPT !.TPLevels = parseTPLevels(entity.Value)]
           [] OTHER -> c

ApplyEntity(c, entityName, entityValues) ==
    IF Len(entityValues) = 0 THEN c
    ELSE LET entity == entityValues[1] IN
         CASE entityName = "symbol" -> [c EXCEPT !.Symbol = normalizeSymbol(entity.Value)]
           [] entityName = "side" -> [c EXCEPT !.Side = Ptr(normalizeSide(entity.Value))]
           [] entityName \in {"entry_price", "price:entry"} ->
                SetFloat(c, "EntryPrice", entity.Value)
           [] entityName \in {"stop_loss", "price:stop_loss"} ->
                SetFloat(c, "StopLoss", entity.Value)
           [] entityName \in {"take_profit", "price:take_profit"} ->
                SetFloat(c, "TakeProfit", entity.Value)
           [] entityName = "risk" -> SetFloat(c, "RiskPercent", entity.Value)
           [] entityName = "trigger_price" -> SetFloat(c, "TriggerPrice", entity.Value)
           [] entityName = "callback_rate" -> SetFloat(c, "CallbackRate", entity.Value)
           [] entityName = "levels" -> [c EXCEPT !.TPLevels = parseTPLevels(entity.Value)]
           [] OTHER -> c

RECURSIVE RangeEntities(_, _, _)
RangeEntities(c, entities, order) ==
    IF order = <<>> THEN c
    ELSE RangeEntities(ApplyEntity(c, Head(order), entities[Head(order)]),
                       entities, Tail(order))

\* A faulty extraction: the last candidate is taken.
ExtractIntentLast(c, intents) ==
    IF Len(intents) > 0
    THEN [c EXCEPT !.Intent = mapWitIntent(intents[Len(intents)].Name),
                   !.Confidence = intents[Len(intents)].Confidence]
    ELSE c

ExtractIntent(c, intents) ==
    IF Len(intents) > 0
    THEN [c EXCEPT !.Intent = mapWitIntent(intents[1].Name),
                   !.Confidence = intents[1].Confidence]
    ELSE c

transformWitResponse(resp, rawInput, now, order) ==
    RangeEntities(
        ExtractIntent([ZeroCommand EXCEPT !.RawInput = rawInput, !.Timestamp = now],
                      resp.Intents),
        resp.Entities, order)

\* The orders in which a range loop can visit the keys of a map.
RECURSIVE Orders(_)
Orders(keys) ==
    IF keys = {} THEN {<<>>}
    ELSE UNION {{<<k>> \o o : o \in Orders(keys \ {k})} : k \in keys}

(***************************************************************************)
(* The commands a caller of ValidateCommand can hand over: every field of  *)
(* NormalizedCommand that the validator reads, drawn from small sets.      *)
(***************************************************************************)
SymBTC == <<"B", "T", "C", "-", "U", "S", "D", "T">>

IntentValues ==
    {IntentOpenPosition, IntentClosePosition, IntentViewPositions, IntentViewOrders,
     IntentCancelOrders, IntentCheckBalance, IntentBreakEven, IntentTrailingStop,
     IntentUnknown, "", "hedge"}
SymbolValues == {<<>>, SymBTC}
SideValues == {Nil, Ptr(SideLong), Ptr(SideShort), Ptr("BOTH")}
EntryValues == {Nil, Ptr(F(2))}
StopValues == {Nil, Ptr(F(1)), Ptr(F(2)), Ptr(F(3)), Ptr(NaN)}
RiskValues == {Nil, Ptr(F(0 - 1)), Ptr(F(0)), Ptr(F(1)), Ptr(F(100)), Ptr(F(101)), Ptr(NaN)}
OptValues == {Nil, Ptr(F(1))}
PctValues == {F(50), F(60)}
TPLevelValues == {[Price |-> F(3), Percentage |-> p] : p \in PctValues}
TPLevelsValues == UNION {[1..k -> TPLevelValues] : k \in 0..MaxTPLevels}

NewCommand(i, sym, side, entry, sl, risk, tps, trig, cb, dist) ==
    [ZeroCommand EXCEPT
        !.Intent = i, !.Symbol = sym, !.Side = side, !.EntryPrice = entry,
        !.StopLoss = sl, !.RiskPercent = risk, !.TPLevels = tps,
        !.TriggerPrice = trig, !.CallbackRate = cb, !.Distance = dist]

(***************************************************************************)
(* A caller builds a command and calls ValidateCommand on it.              *)
(***************************************************************************)
NoResult == [resp |-> Nil, err |-> Nil]
NoReturn == [cmd |-> Nil, err |-> Nil]

Init ==
    /\ pc = "built"
    /\ input = ""
    /\ witResp = NoResult
    /\ ret = NoReturn
    /\ log = <<>>
    /\ before = ZeroCommand
    /\ arg = <<>>
    /\ out = <<>>
    /\ calls = <<>>
    /\ heap = <<>>
    /\ \E i \in IntentValues, sym \in SymbolValues, side \in SideValues,
          entry \in EntryValues, sl \in StopValues, risk \in RiskValues,
          tps \in TPLevelsValues, trig \in OptValues, cb \in OptValues,
          dist \in OptValues :
            cmd = NewCommand(i, sym, side, entry, sl, risk, tps, trig, cb, dist)

ValidateCommand ==
    /\ pc = "built"
    /\ cmd' = ValidateCommandFn(cmd)
    /\ pc' = "validated"
    /\ UNCHANGED <<calls, heap, before, arg, out, input, witResp, ret, log>>

Next == ValidateCommand

Spec == Init /\ [][Next]_vars

(***************************************************************************)
(* A caller hands over a command that may have been validated before (its  *)
(* Valid, Missing and Errors hold anything) and whose other fields are all *)
(* set, and calls ValidateCommand on it twice in a row.                    *)
(***************************************************************************)
PriorOutcomes ==
    {[Valid |-> FALSE, Missing |-> <<>>, MissingNil |-> TRUE,
      Errors |-> <<>>, ErrorsNil |-> TRUE],
     [Valid |-> TRUE, Missing |-> <<"symbol">>, MissingNil |-> FALSE,
      Errors |-> <<"stale">>, ErrorsNil |-> FALSE]}

WithPrior(c, prior) ==
    [c EXCEPT !.Valid = prior.Valid, !.Missing = prior.Missing,
              !.MissingNil = prior.MissingNil, !.Errors = prior.Errors,
              !.ErrorsNil = prior.ErrorsNil,
              !.Confidence = F(1), !.TakeProfit = Ptr(F(4)), !.RRRatio = Ptr(F(2)),
              !.RawInput = "sell btc", !.Language = "en", !.Timestamp = 1]

InitTwice ==
    /\ pc = "built"
    /\ input = ""
    /\ witResp = NoResult
    /\ ret = NoReturn
    /\ log = <<>>
    /\ arg = <<>>
    /\ out = <<>>
    /\ calls = <<>>
    /\ heap = <<>>
    /\ \E i \in IntentValues, sym \in SymbolValues, side \in SideValues,
          entry \in EntryValues, sl \in StopValues, risk \in RiskValues,
          tps \in TPLevelsValues, trail \in OptValues, prior \in PriorOutcomes :
            cmd = WithPrior(
                    NewCommand(i, sym, side, entry, sl, risk, tps, trail, trail, trail),
                    prior)
    /\ before = cmd

ValidateCommandAgain ==
    /\ pc = "validated"
    /\ cmd' = ValidateCommandFn(cmd)
    /\ pc' = "revalidated"
    /\ UNCHANGED <<calls, heap, before, arg, out, input, witResp, ret, log>>

NextTwice == ValidateCommand \/ ValidateCommandAgain

SpecTwice == InitTwice /\ [][NextTwice]_vars


(***************************************************************************)
(* Processor.ParseCommand: callWitAI, then transformWitResponse, then      *)
(* ValidateCommand.  The classification results the provider can answer    *)
(* with are drawn from small sets.                                         *)
(***************************************************************************)
Entity(text) == [Value |-> text]

\* The sets of entity names a classification result of the model carries:
\* what an open_position needs, what a trailing_stop needs, both spellings
\* of the entry price, of the stop loss and of the take profit, the
\* take-profit levels, and a name the transformer does not know.
OpenKeys == {"symbol", "side", "entry_price", "stop_loss", "risk"}
TrailingKeys == {"symbol", "trigger_price", "callback_rate"}
KeySets ==
    (SUBSET OpenKeys) \cup (SUBSET TrailingKeys)
        \cup {{"entry_price", "price:entry"},
              {"symbol", "side", "entry_price", "price:entry"},
              {"stop_loss", "price:stop_loss"},
              {"take_profit"}, {"take_profit", "price:take_profit"},
              {"levels"}, {"levels", "risk"}, {"levels", "symbol"},
              {"symbol", "trigger_price", "distance"}}

EntityLists(name) ==
    CASE name = "symbol" -> {<<>>, <<Entity(<<"b", "t", "c">>)>>, <<Entity(<<>>)>>,
                             <<Entity(<<" ">>)>>}
      [] name = "side" -> {<<>>, <<Entity(<<"s", "e", "l", "l">>)>>, <<Entity(<<"u", "p">>)>>,
                           <<Entity(<<>>)>>}
      [] name = "entry_price" -> {<<Entity(<<"2">>)>>, <<Entity(<<"a", "b", "c">>), Entity(<<"2">>)>>}
      [] name = "price:entry" -> {<<Entity(<<"4">>)>>}
      [] name = "stop_loss" -> {<<Entity(<<"3">>)>>, <<Entity(<<"3", "x">>)>>}
      [] name = "price:stop_loss" -> {<<Entity(<<"1">>)>>}
      [] name = "take_profit" -> {<<Entity(<<"7">>)>>, <<Entity(<<>>), Entity(<<"7">>)>>}
      [] name = "price:take_profit" -> {<<Entity(<<"8">>)>>}
      [] name = "risk" -> {<<Entity(<<"1">>)>>, <<Entity(<<"0">>)>>, <<Entity(<<"N", "a", "N">>)>>}
      [] name = "trigger_price" -> {<<Entity(<<"0">>)>>, <<Entity(<<"t">>)>>}
      [] name = "callback_rate" -> {<<Entity(<<"1">>)>>, <<Entity(<<"1", "%">>)>>}
      [] name = "levels" -> {<<Entity(<<"5", ":", "6", "0", ",", "x", ",", " ", "6", ":", "5", "0">>)>>,
                             <<Entity(<<"5", ":", "-", "1", ",", "6", ":", "1", "0", "1">>)>>}
      [] name = "distance" -> {<<Entity(<<"5">>)>>}

RECURSIVE EntityMaps(_)
EntityMaps(keys) ==
    IF keys = {} THEN {<<>>}
    ELSE LET k == CHOOSE x \in keys : TRUE IN
         {(k :> v) @@ m : v \in EntityLists(k), m \in EntityMaps(keys \ {k})}

WitIntent(name, confidence) == [Name |-> name, Confidence |-> confidence]

IntentLists ==
    {<<>>,
     <<WitIntent("open_position", F(1))>>,
     <<WitIntent("trailing_stop", F(1)), WitIntent("open_position", F(0))>>,
     <<WitIntent("close_position", F(1))>>,
     <<WitIntent("check_balance", F(1))>>,
     <<WitIntent("buy", F(1))>>,
     <<WitIntent("view_positions", F(1))>>,
     <<WitIntent("view_orders", F(0)), WitIntent("open_position", F(1))>>,
     <<WitIntent("cancel_orders", F(1))>>,
     <<WitIntent("break_even", F(1))>>,
     <<WitIntent("", F(1)), WitIntent("close_position", F(1))>>,
     <<WitIntent("Open_Position", F(1))>>,
     <<WitIntent("unknown", F(0))>>}

Inputs == {"sell btc"}
Times == {1, 2}
StatusOK == 200
FailureCodes == {401, 500}

InitParse ==
    /\ pc = "start"
    /\ input \in Inputs
    /\ cmd = ZeroCommand
    /\ witResp = NoResult
    /\ ret = NoReturn
    /\ log = <<>>
    /\ before = ZeroCommand
    /\ arg = <<>>
    /\ out = <<>>
    /\ calls = <<>>
    /\ heap = <<>>

\* callWitAI: NewRequestWithContext or client.Do fails.
CallRequestFails ==
    /\ pc = "start"
    /\ witResp' = [resp |-> Nil, err |-> Ptr("request failed")]
    /\ pc' = "called"
    /\ log' = Append(log, "callWitAI")
    /\ UNCHANGED <<calls, heap, before, arg, out, cmd, input, ret>>

\* A faulty call: after a status other than 200 the provider is asked again.
CallBadStatusRetried ==
    /\ pc = "start"
    /\ \E code \in FailureCodes :
        /\ code # StatusOK
        /\ witResp' = [resp |-> Nil, err |-> Ptr("wit.ai returned status " \o Itoa(code))]
    /\ pc' = "start"
    /\ log' = Append(log, "callWitAI")
    /\ UNCHANGED <<calls, heap, before, arg, out, cmd, input, ret>>

\* callWitAI: the provider answers with a status other than 200.
CallBadStatus ==
    /\ pc = "start"
    /\ \E code \in FailureCodes :
        /\ code # StatusOK
        /\ witResp' = [resp |-> Nil, err |-> Ptr("wit.ai returned status " \o Itoa(code))]
    /\ pc' = "called"
    /\ log' = Append(log, "callWitAI")
    /\ UNCHANGED <<calls, heap, before, arg, out, cmd, input, ret>>

\* callWitAI: status 200, and the body does not decode.
CallDecodeFails ==
    /\ pc = "start"
    /\ witResp' = [resp |-> Nil, err |-> Ptr("decode failed")]
    /\ pc' = "called"
    /\ log' = Append(log, "callWitAI")
    /\ UNCHANGED <<calls, heap, before, arg, out, cmd, input, ret>>

\* callWitAI: status 200, and the body decodes to a WitAIResponse.
CallSucceeds ==
    /\ pc = "start"
    /\ \E intents \in IntentLists :
       \E keys \in KeySets :
       \E entities \in EntityMaps(keys) :
          witResp' = [resp |-> Ptr([Intents |-> intents, Entities |-> entities]),
                      err |-> Nil]
    /\ pc' = "called"
    /\ log' = Append(log, "callWitAI")
    /\ UNCHANGED <<calls, heap, before, arg, out, cmd, input, ret>>

\* ParseCommand: err != nil after callWitAI.
ReturnError ==
    /\ pc = "called"
    /\ witResp.err # Nil
    /\ ret' = [cmd |-> Nil, err |-> Ptr("wit.ai call failed: " \o Deref(witResp.err))]
    /\ pc' = "returned"
    /\ UNCHANGED <<calls, heap, before, arg, out, cmd, input, witResp, log>>

Transform ==
    /\ pc = "called"
    /\ witResp.err = Nil
    /\ \E now \in Times :
       \E order \in Orders(DOMAIN Deref(witResp.resp).Entities) :
          cmd' = transformWitResponse(Deref(witResp.resp), input, now, order)
    /\ pc' = "transformed"
    /\ log' = Append(log, "transformWitResponse")
    /\ UNCHANGED <<calls, heap, before, arg, out, input, witResp, ret>>

Validate ==
    /\ pc = "transformed"
    /\ cmd' = ValidateCommandFn(cmd)
    /\ pc' = "validated"
    /\ log' = Append(log, "ValidateCommand")
    /\ UNCHANGED <<calls, heap, before, arg, out, input, witResp, ret>>

\* A faulty return: an invalid command is turned into an error.
ReturnCommandRejectsInvalid ==
    /\ pc = "validated"
    /\ ret' = IF cmd.Valid THEN [cmd |-> Ptr(cmd), err |-> Nil]
                          ELSE [cmd |-> Nil, err |-> Ptr("invalid command")]
    /\ pc' = "returned"
    /\ UNCHANGED <<calls, heap, before, arg, out, cmd, input, witResp, log>>

ReturnCommand ==
    /\ pc = "validated"
    /\ ret' = [cmd |-> Ptr(cmd), err |-> Nil]
    /\ pc' = "returned"
    /\ UNCHANGED <<calls, heap, before, arg, out, cmd, input, witResp, log>>

NextParse ==
    \/ CallRequestFails
    \/ CallBadStatus
    \/ CallDecodeFails
    \/ CallSucceeds
    \/ ReturnError
    \/ Transform
    \/ Validate
    \/ ReturnCommand

SpecParse == InitParse /\ [][NextParse]_vars

(***************************************************************************)
(* normalizeSymbol, normalizeSide and parseTPLevels called alone, on texts *)
(* drawn from small sets: a word in lower case, in upper case or           *)
(* capitalized, with white space around it; a list of comma-separated      *)
(* parts.                                                                  *)
(***************************************************************************)
MaxPad == 1       \* most white-space characters on each side of a word
MaxParts == 2     \* most comma-separated parts of a levels text

Pads == UNION {[1..k -> WhiteSpace] : k \in 0..MaxPad}

Capitalized(word) == IF word = <<>> THEN word ELSE <<ToUpperChar(Head(word))>> \o Tail(word)
Spellings(word) == {word, ToUpper(word), Capitalized(word)}
Texts(words) ==
    {left \o w \o right : left \in Pads, right \in Pads, w \in UNION {Spellings(x) : x \in words}}

SymbolWords ==
    {<<"b", "i", "t", "c", "o", "i", "n">>,
     <<"b", "t", "c">>,
     <<"e", "t", "h", "e", "r", "e", "u", "m">>,
     <<"e", "t", "h">>,
     <<"s", "o", "l", "a", "n", "a">>,
     <<"s", "o", "l">>,
     <<"b", "n", "b">>,
     <<"x", "r", "p">>,
     <<"a", "d", "a">>,
     <<"c", "a", "r", "d", "a", "n", "o">>,
     <<"d", "o", "g", "e">>,
     <<"d", "o", "g", "e", "c", "o", "i", "n">>,
     <<"b", "t", "c", "-", "u", "s", "d", "t">>,
     <<"e", "t", "h", "-", "u", "s", "d", "t">>,
     <<"s", "o", "l", "-", "u", "s", "d", "t">>,
     <<"b", "n", "b", "-", "u", "s", "d", "t">>,
     <<"x", "r", "p", "-", "u", "s", "d", "t">>,
     <<"a", "d", "a", "-", "u", "s", "d", "t">>,
     <<"d", "o", "g", "e", "-", "u", "s", "d", "t">>,
     <<"x", "y", "z">>,
     <<"x", "y", "z", "-", "u", "s", "d", "t">>,
     <<>>,
     <<"-", "u", "s", "d", "t">>,
     <<"u", "s", "d", "t">>,
     <<"b", " ", "t", "c">>}

SideWords ==
    {<<"b", "u", "y">>,
     <<"l", "o", "n", "g">>,
     <<"b", "u", "l", "l", "i", "s", "h">>,
     <<"c", "o", "m", "p", "r", "a", "r">>,
     <<"l", "a", "r", "g", "o">>,
     <<"a", "l", "c", "i", "s", "t", "a">>,
     <<"s", "e", "l", "l">>,
     <<"s", "h", "o", "r", "t">>,
     <<"b", "e", "a", "r", "i", "s", "h">>,
     <<"v", "e", "n", "d", "e", "r">>,
     <<"c", "o", "r", "t", "o">>,
     <<"b", "a", "j", "i", "s", "t", "a">>,
     <<>>,
     <<"u", "n", "k", "n", "o", "w", "n">>,
     <<"h", "o", "l", "d">>,
     <<"s", "h", "o", "r", "t", "s">>,
     <<"s", " ", "e", "l", "l">>}

LevelParts ==
    {<<"5", ":", "6", "0">>,
     <<" ", "6", ":", "5", "0", " ">>,
     <<"-", "1", ":", "1", "5", "0">>,
     <<"x">>,
     <<"7">>,
     <<"1", ":", "2", ":", "3">>,
     <<"a", ":", "5">>,
     <<"5", ":", "b">>,
     <<>>,
     <<":">>,
     <<"3", " ", ":", "5", "0">>}

PartLists == UNION {[1..k -> LevelParts] : k \in 0..MaxParts}

\* The text whose comma-separated parts are the given ones.
RECURSIVE Join(_)
Join(parts) ==
    IF parts = <<>> THEN <<>>
    ELSE IF Len(parts) = 1 THEN parts[1]
    ELSE parts[1] \o <<",">> \o Join(Tail(parts))

InitNormalize ==
    /\ cmd = ZeroCommand
    /\ input = ""
    /\ witResp = NoResult
    /\ ret = NoReturn
    /\ log = <<>>
    /\ before = ZeroCommand
    /\ out = <<>>
    /\ calls = <<>>
    /\ heap = <<>>
    /\ \/ pc = "normalizeSymbol" /\ arg \in Texts(SymbolWords)
       \/ pc = "normalizeSide" /\ arg \in Texts(SideWords)
       \/ pc = "parseTPLevels" /\ arg \in PartLists

NormalizeSymbol ==
    /\ pc = "normalizeSymbol"
    /\ out' = Append(out, normalizeSymbol(arg))
    /\ pc' = "normalizeSymbol returned"
    /\ UNCHANGED <<calls, heap, before, arg, cmd, input, witResp, ret, log>>

\* The result of normalizeSymbol is normalized once more.
NormalizeSymbolAgain ==
    /\ pc = "normalizeSymbol returned"
    /\ out' = Append(out, normalizeSymbol(out[1]))
    /\ pc' = "normalizeSymbol returned twice"
    /\ UNCHANGED <<calls, heap, before, arg, cmd, input, witResp, ret, log>>

NormalizeSide ==
    /\ pc = "normalizeSide"
    /\ out' = Append(out, normalizeSide(arg))
    /\ pc' = "normalizeSide returned"
    /\ UNCHANGED <<calls, heap, before, arg, cmd, input, witResp, ret, log>>

ParseTPLevels ==
    /\ pc = "parseTPLevels"
    /\ out' = Append(out, parseTPLevels(Join(arg)))
    /\ pc' = "parseTPLevels returned"
    /\ UNCHANGED <<calls, heap, before, arg, cmd, input, witResp, ret, log>>

NextNormalize ==
    \/ NormalizeSymbol
    \/ NormalizeSymbolAgain
    \/ NormalizeSide
    \/ ParseTPLevels

SpecNormalize == InitNormalize /\ [][NextNormalize]_vars

(***************************************************************************)
(* ParseCommand called from several goroutines at once on one Processor.   *)
(* Each call has its own locals (input, witResp, cmd, the return values);  *)
(* cmd is a pointer, so the commands live in a heap shared by all calls:   *)
(* a sequence indexed by address.  The Processor's fields are only read.   *)
(* A step of the model is one statement of ParseCommand in one call.       *)
(***************************************************************************)
Callers == 1..MaxCalls

CallInputs == <<"sell btc", "close btc", "buy eth">>

ConcurrentResponses ==
    {[Intents |-> <<WitIntent("open_position", F(1))>>,
      Entities |-> ("symbol" :> <<Entity(<<"b", "t", "c">>)>>)
                   @@ ("side" :> <<Entity(<<"s", "e", "l", "l">>)>>)],
     [Intents |-> <<WitIntent("open_position", F(1))>>,
      Entities |-> ("entry_price" :> <<Entity(<<"2">>)>>)
                   @@ ("price:entry" :> <<Entity(<<"4">>)>>)],
     [Intents |-> <<WitIntent("close_position", F(1))>>,
      Entities |-> ("symbol" :> <<Entity(<<"b", "t", "c">>)>>)],
     [Intents |-> <<>>, Entities |-> <<>>]}

\* A faulty allocation: every call builds its command in one shared place.
NewAddressShared(h) == 1

\* The address of the command a composite literal &NormalizedCommand{...}
\* allocates: one no live command has.
NewAddress(h) == Len(h) + 1

\* The heap after *addr = c.
Store(h, addr, c) == IF addr > Len(h) THEN Append(h, c) ELSE [h EXCEPT ![addr] = c]

InitConcurrent ==
    /\ calls = [i \in Callers |->
                   [pc |-> "start", input |-> CallInputs[i], witResp |-> NoResult,
                    cmd |-> 0, ret |-> NoReturn]]
    /\ heap = <<>>
    /\ pc = "concurrent"
    /\ cmd = ZeroCommand
    /\ input = ""
    /\ witResp = NoResult
    /\ ret = NoReturn
    /\ log = <<>>
    /\ before = ZeroCommand
    /\ arg = <<>>
    /\ out = <<>>

\* callWitAI in call i fails.
CallFailsIn(i) ==
    /\ calls[i].pc = "start"
    /\ calls' = [calls EXCEPT ![i].pc = "called",
                              ![i].witResp = [resp |-> Nil, err |-> Ptr("request failed")]]
    /\ UNCHANGED <<heap, pc, cmd, input, witResp, ret, log, before, arg, out>>

\* callWitAI in call i returns a WitAIResponse.
CallSucceedsIn(i) ==
    /\ calls[i].pc = "start"
    /\ \E resp \in ConcurrentResponses :
          calls' = [calls EXCEPT ![i].pc = "called",
                                 ![i].witResp = [resp |-> Ptr(resp), err |-> Nil]]
    /\ UNCHANGED <<heap, pc, cmd, input, witResp, ret, log, before, arg, out>>

ReturnErrorIn(i) ==
    /\ calls[i].pc = "called"
    /\ calls[i].witResp.err # Nil
    /\ calls' = [calls EXCEPT ![i].pc = "returned",
                   ![i].ret = [cmd |-> Nil,
                               err |-> Ptr("wit.ai call failed: " \o Deref(calls[i].witResp.err))]]
    /\ UNCHANGED <<heap, pc, cmd, input, witResp, ret, log, before, arg, out>>

\* cmd := transformWitResponse(witResp, input) in call i.
TransformIn(i) ==
    /\ calls[i].pc = "called"
    /\ calls[i].witResp.err = Nil
    /\ LET resp == Deref(calls[i].witResp.resp)
           addr == NewAddress(heap)
       IN /\ \E now \in Times :
             \E order \in Orders(DOMAIN resp.Entities) :
                heap' = Store(heap, addr,
                              transformWitResponse(resp, calls[i].input, now, order))
          /\ calls' = [calls EXCEPT ![i].pc = "transformed", ![i].cmd = addr]
    /\ UNCHANGED <<pc, cmd, input, witResp, ret, log, before, arg, out>>

\* validators.ValidateCommand(cmd) in call i.
ValidateIn(i) ==
    /\ calls[i].pc = "transformed"
    /\ heap' = [heap EXCEPT ![calls[i].cmd] = ValidateCommandFn(@)]
    /\ calls' = [calls EXCEPT ![i].pc = "validated"]
    /\ UNCHANGED <<pc, cmd, input, witResp, ret, log, before, arg, out>>

\* return cmd, nil in call i.
ReturnCommandIn(i) ==
    /\ calls[i].pc = "validated"
    /\ calls' = [calls EXCEPT ![i].pc = "returned",
                              ![i].ret = [cmd |-> Ptr(calls[i].cmd), err |-> Nil]]
    /\ UNCHANGED <<heap, pc, cmd, input, witResp, ret, log, before, arg, out>>

NextConcurrent ==
    \E i \in Callers :
        \/ CallFailsIn(i)
        \/ CallSucceedsIn(i)
        \/ ReturnErrorIn(i)
        \/ TransformIn(i)
        \/ ValidateIn(i)
        \/ ReturnCommandIn(i)

SpecConcurrent == InitConcurrent /\ [][NextConcurrent]_vars

(***************************************************************************)
(* Properties of ValidateCommand, stated on the command it leaves behind   *)
(* (specification Spec).                                                   *)
(***************************************************************************)
Count(seq, x) == Cardinality({i \in 1..Len(seq) : seq[i] = x})
Keep(seq, wanted) == SelectSeq(seq, LAMBDA x : x \in wanted)
Drop(seq, unwanted) == SelectSeq(seq, LAMBDA x : x \notin unwanted)

Validated == pc = "validated"
ValidatedAs(i) == pc = "validated" /\ cmd.Intent = i

RiskMsg == "risk_percent must be between 0 and 100"
LongMsg == "stop_loss must be below entry_price for LONG"
ShortMsg == "stop_loss must be above entry_price for SHORT"

\* C1: after ValidateCommand, for every command and every intent, Valid is
\* true if and only if both Missing and Errors are empty.
C1_ValidIffNothingReported ==
    Validated => (cmd.Valid <=> (cmd.Missing = <<>> /\ cmd.Errors = <<>>))

C1_Witness ==
    /\ ValidatedAs(IntentOpenPosition)
    /\ ~cmd.Valid
    /\ cmd.Missing = <<>>
    /\ cmd.Errors = <<RiskMsg>>

\* C2: for an open_position command, Missing is exactly the sub-sequence of
\* symbol, side, entry_price, stop_loss, risk_percent made of the absent
\* fields, in that order, each at most once; all five checks always run.
OpenAbsent ==
    {n \in {"symbol"} : cmd.Symbol = <<>>}
        \cup {n \in {"side"} : cmd.Side = Nil}
        \cup {n \in {"entry_price"} : cmd.EntryPrice = Nil}
        \cup {n \in {"stop_loss"} : cmd.StopLoss = Nil}
        \cup {n \in {"risk_percent"} : cmd.RiskPercent = Nil}

PricesPresent == cmd.Side # Nil /\ cmd.EntryPrice # Nil /\ cmd.StopLoss # Nil

C3_StopLossAgainstEntry ==
    ValidatedAs(IntentOpenPosition) =>
        /\ Count(cmd.Errors, LongMsg) =
              IF PricesPresent /\ Deref(cmd.Side) = "LONG"
                 /\ FGe(Deref(cmd.StopLoss), Deref(cmd.EntryPrice))
              THEN 1 ELSE 0
        /\ Count(cmd.Errors, ShortMsg) =
              IF PricesPresent /\ Deref(cmd.Side) = "SHORT"
                 /\ FLe(Deref(cmd.StopLoss), Deref(cmd.EntryPrice))
              THEN 1 ELSE 0

C3_Witness ==
    /\ ValidatedAs(IntentOpenPosition)
    /\ cmd.Side = Ptr("LONG")
    /\ cmd.EntryPrice = Ptr(F(2)) /\ cmd.StopLoss = Ptr(F(2))
    /\ Count(cmd.Errors, LongMsg) = 1
    /\ ~cmd.Valid

\* C4: for an open_position command, the error "risk_percent must be between
\* 0 and 100" is appended if and only if risk_percent is present and its
\* value is not in the interval (0,100], whether or not other required
\* fields are missing.
InRiskInterval(x) == ~x.nan /\ x.v > 0 /\ x.v <= 100

C4_RiskErrorIffOutsideInterval ==
    ValidatedAs(IntentOpenPosition) =>
        (Count(cmd.Errors, RiskMsg) =
            IF cmd.RiskPercent # Nil /\ ~InRiskInterval(Deref(cmd.RiskPercent))
            THEN 1 ELSE 0)

\* C5: for an open_position command with a non-empty tp_levels list, one
\* error "TP percentages sum to <sum with one decimal>%, cannot exceed 100%"
\* is appended and Valid is false if and only if the sum of the percentages
\* is strictly greater than 100 (60 and 50 give "... 110.0% ..."); a sum of
\* exactly 100 or an empty list produces no TP error.
RECURSIVE PctTotal(_)
PctTotal(levels) ==
    IF levels = <<>> THEN 0 ELSE Head(levels).Percentage.v + PctTotal(Tail(levels))

TPErrors == Drop(cmd.Errors, {RiskMsg, LongMsg, ShortMsg})

SumExceeds100 ==
    /\ \A i \in 1..Len(cmd.TPLevels) : ~cmd.TPLevels[i].Percentage.nan
    /\ PctTotal(cmd.TPLevels) > 100

C5_TPSumError ==
    ValidatedAs(IntentOpenPosition) =>
        /\ TPErrors =
              IF SumExceeds100
              THEN <<"TP percentages sum to " \o Itoa(PctTotal(cmd.TPLevels))
                        \o ".0%, cannot exceed 100%">>
              ELSE <<>>
        /\ SumExceeds100 => ~cmd.Valid
        /\ (Len(cmd.TPLevels) = 2 /\ cmd.TPLevels[1].Percentage = F(60)
               /\ cmd.TPLevels[2].Percentage = F(50))
            => TPErrors = <<"TP percentages sum to 110.0%, cannot exceed 100%">>

C5_Witness ==
    /\ ValidatedAs(IntentOpenPosition)
    /\ Len(cmd.TPLevels) = 2
    /\ cmd.TPLevels[1].Percentage = F(60) /\ cmd.TPLevels[2].Percentage = F(50)
    /\ cmd.Errors = <<"TP percentages sum to 110.0%, cannot exceed 100%">>
    /\ ~cmd.Valid

\* C6: for a trailing_stop command, Missing is the sub-sequence of symbol,
\* trigger_price, "callback_rate or distance" in that order: symbol iff
\* Symbol is empty, trigger_price iff TriggerPrice is absent, and the
\* combined entry iff both CallbackRate and Distance are absent; Errors
\* stays empty.
TrailingAbsent ==
    {n \in {"symbol"} : cmd.Symbol = <<>>}
        \cup {n \in {"trigger_price"} : cmd.TriggerPrice = Nil}
        \cup {n \in {"callback_rate or distance"} :
                cmd.CallbackRate = Nil /\ cmd.Distance = Nil}

C7_SymbolOnly ==
    (Validated /\ cmd.Intent \in {"close_position", "break_even"}) =>
        /\ cmd.Valid = (cmd.Symbol # <<>>)
        /\ cmd.Missing = IF cmd.Symbol = <<>> THEN <<"symbol">> ELSE <<>>
        /\ cmd.Errors = <<>>

C7_Witness ==
    /\ ValidatedAs(IntentBreakEven)
    /\ cmd.Symbol # <<>>
    /\ cmd.Side = Nil /\ cmd.TriggerPrice = Nil /\ cmd.RiskPercent = Ptr(F(101))
    /\ cmd.Valid

\* C8: for every command whose intent is cancel_orders, view_positions,
\* view_orders or check_balance, Valid is true and Missing and Errors are
\* empty, whatever the other fields contain.
C8_NoValidationIntentsValid ==
    (Validated /\ cmd.Intent \in
        {"cancel_orders", "view_positions", "view_orders", "check_balance"}) =>
        /\ cmd.Valid
        /\ cmd.Missing = <<>>
        /\ cmd.Errors = <<>>

C8_Witness ==
    /\ ValidatedAs(IntentCancelOrders)
    /\ cmd.Symbol = <<>> /\ cmd.Side = Nil /\ cmd.RiskPercent = Ptr(F(101))
    /\ cmd.Valid

\* C9: for every command whose intent is "unknown", the empty intent value,
\* or any other value outside the eight handled intents, Valid is false,
\* Missing is empty even if Symbol is empty, and Errors holds exactly one
\* entry, "unknown intent: " followed by the literal intent value.
HandledIntents ==
    {"open_position", "close_position", "view_positions", "view_orders",
     "cancel_orders", "check_balance", "break_even", "trailing_stop"}

C9_UnknownIntent ==
    (Validated /\ cmd.Intent \notin HandledIntents) =>
        /\ ~cmd.Valid
        /\ cmd.Missing = <<>>
        /\ cmd.Errors =
              CASE cmd.Intent = "unknown" -> <<"unknown intent: unknown">>
                [] cmd.Intent = "" -> <<"unknown intent: ">>
                [] cmd.Intent = "hedge" -> <<"unknown intent: hedge">>

C9_Witness ==
    /\ ValidatedAs("")
    /\ cmd.Symbol = <<>>
    /\ cmd.Errors = <<"unknown intent: ">>
    /\ ~cmd.Valid

(***************************************************************************)
(* Properties of ParseCommand (specification SpecParse).                   *)
(***************************************************************************)
\* C10: ParseCommand returns exactly one of a command or an error: if the
\* provider call fails it returns a nil command and a non-nil error and
\* neither the transformer nor the validator runs; if the provider call
\* succeeds it returns a non-nil command and a nil error, also when the
\* command is invalid.
C10_CommandOrError ==
    pc = "returned" =>
        /\ (ret.cmd = Nil) # (ret.err = Nil)
        /\ witResp.err # Nil =>
              /\ ret.cmd = Nil /\ ret.err # Nil
              /\ log = <<"callWitAI">>
        /\ witResp.err = Nil =>
              /\ ret.cmd # Nil /\ ret.err = Nil
              /\ log = <<"callWitAI", "transformWitResponse", "ValidateCommand">>

C10_Witness ==
    /\ pc = "returned"
    /\ ret.cmd # Nil /\ ret.err = Nil
    /\ ~Deref(ret.cmd).Valid
    /\ Deref(ret.cmd).Intent = IntentOpenPosition
    /\ Deref(ret.cmd).Missing # <<>>

(***************************************************************************)
(* Properties of ValidateCommand called on a used command, twice           *)
(* (specification SpecTwice).                                              *)
(***************************************************************************)
Outcome(c) == <<c.Valid, c.Missing, c.MissingNil, c.Errors, c.ErrorsNil>>
Cleared(c) ==
    [c EXCEPT !.Valid = FALSE, !.Missing = <<>>, !.MissingNil = TRUE,
              !.Errors = <<>>, !.ErrorsNil = TRUE]
AfterCall == pc \in {"validated", "revalidated"}

\* C11: the result of ValidateCommand (Valid, Missing, Errors) depends only
\* on the intent and the parameter fields, never on the values Valid, Missing
\* and Errors held before the call; Missing and Errors are non-nil afterwards
\* even for a valid command; and calling ValidateCommand twice in a row gives
\* the same Valid, Missing and Errors as calling it once.
C11_ResultIgnoresPriorOutcome ==
    AfterCall =>
        /\ ~cmd.MissingNil /\ ~cmd.ErrorsNil
        /\ Outcome(cmd) = Outcome(ValidateCommandFn(Cleared(before)))

C11_Witness ==
    /\ pc = "revalidated"
    /\ before.Valid /\ before.Missing = <<"symbol">> /\ before.Errors = <<"stale">>
    /\ before.Symbol # <<>> /\ before.Intent = IntentClosePosition
    /\ cmd.Valid /\ cmd.Missing = <<>> /\ cmd.Errors = <<>>
    /\ ~cmd.MissingNil /\ ~cmd.ErrorsNil

\* C12: ValidateCommand changes only Valid, Missing and Errors: for every
\* intent, Intent, Confidence, Symbol, Side, EntryPrice, StopLoss, TakeProfit,
\* TriggerPrice, TPLevels, RiskPercent, RRRatio, CallbackRate, Distance,
\* RawInput, Language and Timestamp are the same after the call as before it.
ParameterFields ==
    {"Intent", "Confidence", "Symbol", "Side", "EntryPrice", "StopLoss",
     "TakeProfit", "TriggerPrice", "TPLevels", "RiskPercent", "RRRatio",
     "CallbackRate", "Distance", "RawInput", "Language", "Timestamp"}

C12_OnlyOutcomeChanges ==
    AfterCall => \A f \in ParameterFields : cmd[f] = before[f]

C12_Witness ==
    /\ pc = "validated"
    /\ before.Intent = "hedge" /\ cmd.Intent = "hedge"
    /\ cmd.Errors = <<"unknown intent: hedge">>
    /\ cmd.RawInput = "sell btc" /\ cmd.Timestamp = 1 /\ cmd.TakeProfit = Ptr(F(4))
    /\ before.Valid /\ ~cmd.Valid

(***************************************************************************)
(* Properties of transformWitResponse inside ParseCommand (specification   *)
(* SpecParse).                                                             *)
(***************************************************************************)
TheResponse == Deref(witResp.resp)
Transformed == pc = "transformed"
SameButTimestamp(c1, c2) == [c1 EXCEPT !.Timestamp = 0] = [c2 EXCEPT !.Timestamp = 0]

\* C13: transforming the same classification result with the same raw input
\* always yields the same command in every field except Timestamp, also when
\* the entity map holds both spellings of an aliased category with different
\* parseable values: the outcome does not depend on the order in which the
\* entity map is traversed.
C13_TransformIgnoresOrder ==
    Transformed =>
        \A order \in Orders(DOMAIN TheResponse.Entities) : \A now \in Times :
            SameButTimestamp(cmd, transformWitResponse(TheResponse, input, now, order))

(***************************************************************************)
(* Properties of normalizeSymbol, normalizeSide and parseTPLevels, stated  *)
(* on the argument and the results of a call.                              *)
(***************************************************************************)
SymbolReturned == pc \in {"normalizeSymbol returned", "normalizeSymbol returned twice"}
Trimmed == TrimSpace(arg)
Surrounded(text) == text # <<>> /\ (Head(text) \in WhiteSpace \/ text[Len(text)] \in WhiteSpace)
SynonymPairs ==
    {<<<<"b", "i", "t", "c", "o", "i", "n">>, <<"B", "T", "C", "-", "U", "S", "D", "T">>>>,
     <<<<"b", "t", "c">>, <<"B", "T", "C", "-", "U", "S", "D", "T">>>>,
     <<<<"e", "t", "h", "e", "r", "e", "u", "m">>, <<"E", "T", "H", "-", "U", "S", "D", "T">>>>,
     <<<<"e", "t", "h">>, <<"E", "T", "H", "-", "U", "S", "D", "T">>>>,
     <<<<"s", "o", "l", "a", "n", "a">>, <<"S", "O", "L", "-", "U", "S", "D", "T">>>>,
     <<<<"s", "o", "l">>, <<"S", "O", "L", "-", "U", "S", "D", "T">>>>,
     <<<<"b", "n", "b">>, <<"B", "N", "B", "-", "U", "S", "D", "T">>>>,
     <<<<"x", "r", "p">>, <<"X", "R", "P", "-", "U", "S", "D", "T">>>>,
     <<<<"c", "a", "r", "d", "a", "n", "o">>, <<"A", "D", "A", "-", "U", "S", "D", "T">>>>,
     <<<<"a", "d", "a">>, <<"A", "D", "A", "-", "U", "S", "D", "T">>>>,
     <<<<"d", "o", "g", "e", "c", "o", "i", "n">>, <<"D", "O", "G", "E", "-", "U", "S", "D", "T">>>>,
     <<<<"d", "o", "g", "e">>, <<"D", "O", "G", "E", "-", "U", "S", "D", "T">>>>}
IsSynonym(text) == \E pair \in SynonymPairs : ToLower(text) = pair[1]
UpperWithSuffix(text) ==
    IF HasSuffix(ToUpper(text), <<"-", "U", "S", "D", "T">>)
    THEN ToUpper(text)
    ELSE ToUpper(text) \o <<"-", "U", "S", "D", "T">>

\* C14: for an input that is no synonym after trimming and lower-casing,
\* normalizeSymbol returns the upper-cased trimmed input, followed by "-USDT"
\* unless it ends in it already; the result carries none of the white space
\* that surrounded the input (" xyz " gives "XYZ-USDT", "xyz-usdt " gives
\* "XYZ-USDT").
C14_UnknownSymbolTrimmedAndSuffixed ==
    (SymbolReturned /\ ~IsSynonym(Trimmed)) =>
        /\ out[1] = UpperWithSuffix(Trimmed)
        /\ ~Surrounded(out[1])
        /\ arg = <<" ", "x", "y", "z", " ">> => out[1] = <<"X", "Y", "Z", "-", "U", "S", "D", "T">>
        /\ arg = <<"x", "y", "z", "-", "u", "s", "d", "t", " ">> => out[1] = <<"X", "Y", "Z", "-", "U", "S", "D", "T">>

\* C15: normalizeSymbol maps every synonym, in any letter case and with any
\* white space around it, to its canonical pair.
C15_SynonymToCanonicalPair ==
    SymbolReturned =>
        \A pair \in SynonymPairs : ToLower(Trimmed) = pair[1] => out[1] = pair[2]

C15_Witness ==
    /\ pc = "normalizeSymbol returned"
    /\ arg = <<" ", "C", "a", "r", "d", "a", "n", "o", "\t">>
    /\ out = <<<<"A", "D", "A", "-", "U", "S", "D", "T">>>>

\* C16: normalizing the result of normalizeSymbol gives that result again; a
\* canonical pair written in either case is returned in upper case, and every
\* pair of the table is returned as it is.
C16_NormalizeSymbolIdempotent ==
    /\ pc = "normalizeSymbol returned twice" => out[2] = out[1]
    /\ SymbolReturned =>
           /\ arg \in {<<"B", "T", "C", "-", "U", "S", "D", "T">>, <<"b", "t", "c", "-", "u", "s", "d", "t">>} =>
                  out[1] = <<"B", "T", "C", "-", "U", "S", "D", "T">>
           /\ (\E pair \in SynonymPairs : arg = pair[2]) => out[1] = arg

C16_Witness ==
    /\ pc = "normalizeSymbol returned twice"
    /\ arg = <<"X", "y", "z">>
    /\ out = <<<<"X", "Y", "Z", "-", "U", "S", "D", "T">>, <<"X", "Y", "Z", "-", "U", "S", "D", "T">>>>

ShortWords ==
    {<<"s", "e", "l", "l">>, <<"s", "h", "o", "r", "t">>, <<"b", "e", "a", "r", "i", "s", "h">>, <<"v", "e", "n", "d", "e", "r">>, <<"c", "o", "r", "t", "o">>, <<"b", "a", "j", "i", "s", "t", "a">>}
LongWords ==
    {<<"b", "u", "y">>, <<"l", "o", "n", "g">>, <<"b", "u", "l", "l", "i", "s", "h">>, <<"c", "o", "m", "p", "r", "a", "r">>, <<"l", "a", "r", "g", "o">>, <<"a", "l", "c", "i", "s", "t", "a">>, <<>>}

\* C17: normalizeSide returns LONG or SHORT for every text: SHORT exactly when
\* the trimmed, lower-cased text is sell, short, bearish, vender, corto or
\* bajista, and LONG otherwise (buy, long, bullish, comprar, largo, alcista,
\* the empty text and unrecognized words included).
C17_SideShortIffShortWord ==
    pc = "normalizeSide returned" =>
        /\ out[1] \in {"LONG", "SHORT"}
        /\ out[1] = "SHORT" <=> ToLower(Trimmed) \in ShortWords
        /\ ToLower(Trimmed) \in LongWords => out[1] = "LONG"

C17_Witness ==
    /\ pc = "normalizeSide returned"
    /\ arg = <<" ", "B", "A", "J", "I", "S", "T", "A">>
    /\ out = <<"SHORT">>

\* The level a comma-separated part stands for, as a sequence of none or one.
LevelOf(part) ==
    CASE part = <<"5", ":", "6", "0">> -> <<[Price |-> F(5), Percentage |-> F(60)]>>
      [] part = <<" ", "6", ":", "5", "0", " ">> -> <<[Price |-> F(6), Percentage |-> F(50)]>>
      [] part = <<"-", "1", ":", "1", "5", "0">> -> <<[Price |-> F(0 - 1), Percentage |-> F(150)]>>
      [] OTHER -> <<>>

RECURSIVE LevelsOf(_)
LevelsOf(parts) == IF parts = <<>> THEN <<>> ELSE LevelOf(Head(parts)) \o LevelsOf(Tail(parts))

CanonicalLabels ==
    {"open_position", "close_position", "view_positions", "view_orders",
     "cancel_orders", "check_balance", "break_even", "trailing_stop"}

\* C19: after the transform the intent and the confidence come from the
\* first candidate alone: the intent is the label when it is one of the eight
\* canonical labels and unknown otherwise (the empty label included), the
\* confidence is the candidate's; without candidates the intent is the zero
\* value and the confidence 0.0.
C19_IntentFromFirstCandidate ==
    Transformed =>
        LET intents == TheResponse.Intents IN
        IF intents = <<>>
        THEN cmd.Intent = "" /\ cmd.Confidence = F(0)
        ELSE /\ cmd.Intent = (IF intents[1].Name \in CanonicalLabels
                              THEN intents[1].Name ELSE "unknown")
             /\ cmd.Confidence = intents[1].Confidence

C19_Witness ==
    /\ Transformed
    /\ TheResponse.Intents = <<WitIntent("view_orders", F(0)), WitIntent("open_position", F(1))>>
    /\ cmd.Intent = "view_orders"
    /\ cmd.Confidence = F(0)

\* The field and the Missing entry of each numeric entity category.
NumericCategories ==
    {<<"entry_price", "EntryPrice", "entry_price">>,
     <<"stop_loss", "StopLoss", "stop_loss">>,
     <<"take_profit", "TakeProfit", "">>,
     <<"risk", "RiskPercent", "risk_percent">>,
     <<"trigger_price", "TriggerPrice", "trigger_price">>,
     <<"callback_rate", "CallbackRate", "callback_rate or distance">>}

\* The intent for which a category is required.
RequiredFor(category) ==
    CASE category \in {"entry_price", "stop_loss", "risk"} -> {"open_position"}
      [] category \in {"trigger_price", "callback_rate"} -> {"trailing_stop"}
      [] OTHER -> {}

\* The number a value text stands for, as a pointer: nil when it is no number.
NumberOf(text) ==
    CASE text = <<"0">> -> <<F(0)>>
      [] text = <<"1">> -> <<F(1)>>
      [] text = <<"2">> -> <<F(2)>>
      [] text = <<"3">> -> <<F(3)>>
      [] text = <<"4">> -> <<F(4)>>
      [] text = <<"7">> -> <<F(7)>>
      [] text = <<"8">> -> <<F(8)>>
      [] text = <<"N", "a", "N">> -> <<NaN>>
      [] OTHER -> <<>>

FirstValue(category) == TheResponse.Entities[category][1].Value
Carries(category) ==
    category \in DOMAIN TheResponse.Entities /\ TheResponse.Entities[category] # <<>>

\* C20: for each numeric category the response carries, the field is the
\* number its first value stands for, or absent when that value is no number;
\* the transform writes nothing to Errors; after validation a field left
\* absent this way that the intent requires is in Missing and the command is
\* invalid.
C20_NumericFieldFromFirstValue ==
    \A cat \in NumericCategories :
        /\ (pc \in {"transformed", "validated"} /\ Carries(cat[1])) =>
               cmd[cat[2]] = NumberOf(FirstValue(cat[1]))
        /\ Transformed => cmd.Errors = <<>>
        /\ (pc = "validated" /\ Carries(cat[1]) /\ NumberOf(FirstValue(cat[1])) = <<>>
                /\ cmd[cat[2]] = Nil /\ cmd.Intent \in RequiredFor(cat[1])) =>
               Count(cmd.Missing, cat[3]) = 1 /\ ~cmd.Valid

(***************************************************************************)
(* Properties of concurrent ParseCommand calls.                            *)
(***************************************************************************)
\* The commands call i produces when it runs alone on its classification
\* result: one for each order in which the entities can be visited.
AloneTransformed(i) ==
    LET resp == Deref(calls[i].witResp.resp) IN
    {transformWitResponse(resp, CallInputs[i], 0, order) : order \in Orders(DOMAIN resp.Entities)}

AloneValidated(i) == {ValidateCommandFn(c) : c \in AloneTransformed(i)}

TimestampCleared(c) == [c EXCEPT !.Timestamp = 0]

\* C21: under every interleaving of the calls, the command of each call is,
\* except for Timestamp, a command the call produces when it runs alone: the
\* transformed one before validation, the validated one from then on; no two
\* calls work on the same command.
C21_CallsDoNotInterfere ==
    pc = "concurrent" =>
        \A i \in Callers :
            /\ calls[i].pc = "transformed" =>
                   TimestampCleared(heap[calls[i].cmd]) \in AloneTransformed(i)
            /\ calls[i].pc \in {"validated", "returned"} /\ calls[i].cmd # 0 =>
                   TimestampCleared(heap[calls[i].cmd]) \in AloneValidated(i)
            /\ \A j \in Callers \ {i} :
                   calls[i].cmd # 0 => calls[j].cmd # calls[i].cmd

C21_Witness ==
    /\ pc = "concurrent"
    /\ calls[1].pc = "transformed" /\ calls[1].cmd = 1
    /\ calls[2].pc = "returned" /\ calls[2].cmd = 2
    /\ calls[2].ret = [cmd |-> Ptr(2), err |-> Nil]
    /\ heap[1].RawInput = "sell btc" /\ ~heap[1].Valid /\ heap[1].MissingNil
    /\ heap[2].RawInput = "close btc" /\ heap[2].Valid /\ heap[2].Intent = "close_position"

(***************************************************************************)
(* Properties of the steps of one ParseCommand call.                       *)
(***************************************************************************)
StepsInOrder == <<"callWitAI", "transformWitResponse", "ValidateCommand">>
InParseCommand == pc \in {"start", "called", "transformed", "validated", "returned"}

\* C22: within one ParseCommand call the provider is called once, then, only
\* when it succeeded, the command is built once and then validated once; the
\* command returned is the validated one, as validation left it.
C22_StepsOnceInOrder ==
    InParseCommand =>
        /\ log = SubSeq(StepsInOrder, 1, Len(log))
        /\ pc = "start" <=> log = <<>>
        /\ pc = "called" => Len(log) = 1
        /\ pc = "transformed" => Len(log) = 2 /\ witResp.err = Nil
        /\ pc = "validated" => Len(log) = 3 /\ witResp.err = Nil
        /\ (pc = "returned" /\ witResp.err # Nil) =>
               Len(log) = 1 /\ ret.cmd = Nil /\ ret.err # Nil /\ cmd = ZeroCommand
        /\ (pc = "returned" /\ witResp.err = Nil) =>
               /\ Len(log) = 3
               /\ ret = [cmd |-> Ptr(cmd), err |-> Nil]
               /\ \E now \in Times : \E order \in Orders(DOMAIN TheResponse.Entities) :
                      cmd = ValidateCommandFn(transformWitResponse(TheResponse, input, now, order))

C22_Witness ==
    /\ pc = "returned"
    /\ log = <<"callWitAI", "transformWitResponse", "ValidateCommand">>
    /\ witResp.err = Nil
    /\ ret = [cmd |-> Ptr(cmd), err |-> Nil]
    /\ cmd.Intent = "open_position" /\ cmd.Valid /\ ~cmd.MissingNil

(***************************************************************************)
(* Properties of the validator and of the pipeline on absent, zero and     *)
(* out-of-range values.                                                    *)
(***************************************************************************)
SymbolAndSideOnly ==
    /\ cmd.Symbol # <<>> /\ cmd.Side # Nil
    /\ cmd.EntryPrice = Nil /\ cmd.StopLoss = Nil /\ cmd.RiskPercent = Nil

OtherSpelling(category) ==
    CASE category = "entry_price" -> "price:entry"
      [] category = "stop_loss" -> "price:stop_loss"
      [] category = "take_profit" -> "price:take_profit"
      [] OTHER -> category

Pipelined == pc \in {"transformed", "validated"}

InPercentRange(x) == ~x.nan /\ x.v >= 0 /\ x.v <= 100

\* C25: a command the pipeline reports as valid stores no take-profit level
\* whose percentage is negative or above 100.
C25_ValidLevelsWithinPercentRange ==
    (Validated /\ cmd.Valid) =>
        \A k \in 1..Len(cmd.TPLevels) : InPercentRange(cmd.TPLevels[k].Percentage)

\* C26: for an open_position command Errors is the range error, then the
\* stop-loss error (the LONG one or the SHORT one), then the TP-sum error,
\* each present at most once; the rules are checked whether or not a
\* required field is missing, so Missing and Errors can both be non-empty.
C26_OpenErrorsInCheckOrder ==
    ValidatedAs(IntentOpenPosition) =>
        LET range == Keep(cmd.Errors, {RiskMsg})
            price == Keep(cmd.Errors, {LongMsg, ShortMsg})
        IN /\ cmd.Errors = range \o price \o TPErrors
           /\ Len(range) <= 1 /\ Len(price) <= 1 /\ Len(TPErrors) <= 1
           /\ (cmd.RiskPercent # Nil /\ FGt(Deref(cmd.RiskPercent), F(100))) => range = <<RiskMsg>>
           /\ SumExceeds100 => Len(TPErrors) = 1

C26_Witness ==
    /\ ValidatedAs(IntentOpenPosition)
    /\ cmd.Symbol = <<>>
    /\ cmd.RiskPercent = Ptr(F(101))
    /\ cmd.Missing = <<"symbol">>
    /\ cmd.Errors = <<RiskMsg, LongMsg, "TP percentages sum to 110.0%, cannot exceed 100%">>

\* C27: an open_position command the pipeline reports as valid has a symbol,
\* a side that is LONG or SHORT, an entry price, a stop loss and a risk
\* percent; the risk percent is in (0,100], the stop loss is strictly below
\* the entry price for LONG and strictly above it for SHORT, and the TP
\* percentages sum to at most 100.
C27_ValidOpenPositionIsSound ==
    (ValidatedAs(IntentOpenPosition) /\ cmd.Valid) =>
        /\ cmd.Symbol # <<>>
        /\ cmd.Side \in {Ptr("LONG"), Ptr("SHORT")}
        /\ cmd.EntryPrice # Nil /\ cmd.StopLoss # Nil /\ cmd.RiskPercent # Nil
        /\ InRiskInterval(Deref(cmd.RiskPercent))
        /\ ~Deref(cmd.StopLoss).nan /\ ~Deref(cmd.EntryPrice).nan
        /\ cmd.Side = Ptr("LONG") => Deref(cmd.StopLoss).v < Deref(cmd.EntryPrice).v
        /\ cmd.Side = Ptr("SHORT") => Deref(cmd.StopLoss).v > Deref(cmd.EntryPrice).v
        /\ \A k \in 1..Len(cmd.TPLevels) : ~cmd.TPLevels[k].Percentage.nan
        /\ PctTotal(cmd.TPLevels) <= 100

\* C28: after the transform Side is present exactly when the result carries
\* a side entity with a value, and is then LONG or SHORT; a side text that is
\* empty or no synonym gives LONG, so an open_position command with such a
\* text never has side in Missing.
C28_SidePresentIffEntity ==
    Pipelined =>
        /\ cmd.Side # Nil <=> Carries("side")
        /\ cmd.Side # Nil => Deref(cmd.Side) \in {"LONG", "SHORT"}
        /\ (Carries("side") /\ FirstValue("side") \in {<<"u", "p">>, <<>>}) =>
               /\ cmd.Side = Ptr("LONG")
               /\ ValidatedAs(IntentOpenPosition) => Count(cmd.Missing, "side") = 0
        /\ (Carries("side") /\ FirstValue("side") = <<"s", "e", "l", "l">>) =>
               cmd.Side = Ptr("SHORT")

C28_Witness ==
    /\ ValidatedAs(IntentOpenPosition)
    /\ Carries("side") /\ FirstValue("side") = <<"u", "p">>
    /\ cmd.Side = Ptr("LONG")
    /\ cmd.Missing = <<>>
    /\ cmd.Errors = <<LongMsg>>

Parses(category) == Carries(category) /\ NumberOf(FirstValue(category)) # <<>>

C30_SymbolEmptyIffNoEntity ==
    Pipelined =>
        /\ cmd.Symbol = <<>> <=> ~Carries("symbol")
        /\ Carries("symbol") => HasSuffix(cmd.Symbol, <<"-", "U", "S", "D", "T">>)
        /\ (Carries("symbol") /\ FirstValue("symbol") = <<>>) =>
               cmd.Symbol = <<"-", "U", "S", "D", "T">>
        /\ (Validated /\ Carries("symbol")) => Count(cmd.Missing, "symbol") = 0

C30_Witness ==
    /\ ValidatedAs(IntentClosePosition)
    /\ Carries("symbol") /\ FirstValue("symbol") = <<>>
    /\ cmd.Symbol = <<"-", "U", "S", "D", "T">>
    /\ cmd.Valid
    /\ cmd.Missing = <<>>

====
